---- MODULE Spec2Model ----
(***************************************************************************)
(* Model of the top-level frontier tier of the tiered commitment tree      *)
(* (tct/src/internal/frontier/top.rs).  Top<Item> wraps an                 *)
(* Option<Nested<Item>>; every method of Top dispatches on that option and *)
(* delegates to the nested frontier.  The nested frontier, the complete    *)
(* tier and the hash function are not part of top.rs: they are modelled    *)
(* from the design document (sections 3, 4 and 6) and are kept apart from  *)
(* the definitions that model top.rs.                                      *)
(*                                                                         *)
(* The module also models the wallet command of pcli                       *)
(* (pcli/src/command/wallet.rs), which runs against the file that          *)
(* wallet_path names; it has its own specification, WalletSpec.            *)
(***************************************************************************)
EXTENDS Integers, Sequences, FiniteSets, TLC

\* ------------------------------------------------------------------ bounds
\* Number of distinct raw items a caller may insert.
NumItems == 2

\* Shape of the nested tier: the concrete scenario of the design document
\* (arity 2, depth 2, capacity 4).
Arity == 2
Depth == 2

Items == 1..NumItems

RECURSIVE Pow(_, _)
Pow(a, n) == IF n = 0 THEN 1 ELSE a * Pow(a, n - 1)

Capacity == Pow(Arity, Depth)

\* Positions a caller may ask about: every valid one and one out of range.
Positions == 0..Capacity

\* ------------------------------------------------------- Option / Insert
NoneV == [tag |-> "None"]
Some(x) == [tag |-> "Some", val |-> x]

\* Insert<T>: a kept value or only its hash.
Keep(x) == [tag |-> "Keep", val |-> x]
HashOnly(h) == [tag |-> "Hash", hash |-> h]

\* ------------------------------------------------------------------ hashes
\* The hash function is opaque and collision free: a digest is the flat
\* prefix-free encoding of the term it was computed from.
HashZero == <<0>>
HashOne == <<1>>
HashLeaf(v) == <<2, v>>

RECURSIVE Concat(_)
Concat(ss) == IF ss = <<>> THEN <<>> ELSE Head(ss) \o Concat(Tail(ss))

\* Pad a sequence of child digests to Arity entries with the empty-subtree
\* digest.
PadZero(hs) == hs \o [i \in 1..(Arity - Len(hs)) |-> HashZero]

HashNode(hs) == <<3>> \o Concat(PadZero(hs)) \o <<4>>

\* Digest of an Insert at height h (complete nodes cache their hash).
InsertHash(h, n) ==
    IF n.tag = "Hash" THEN n.hash
    ELSE IF h = 0 THEN HashLeaf(n.val) ELSE n.val.hash

\* --------------------------------------------------------- nested frontier
\* A frontier at height 0 is a leaf holding Insert<item>; at height h > 0 it
\* is [siblings, focus]: finalized siblings (Insert<complete>) left of the
\* focus, and the focus, a frontier of height h - 1.
RECURSIVE NestedNew(_, _)
NestedNew(h, item) ==
    IF h = 0 THEN Keep(item)
    ELSE [siblings |-> <<>>, focus |-> NestedNew(h - 1, item)]

RECURSIVE FrontierIsFull(_, _)
FrontierIsFull(h, f) ==
    IF h = 0 THEN TRUE
    ELSE Len(f.siblings) = Arity - 1 /\ FrontierIsFull(h - 1, f.focus)

RECURSIVE FrontierHash(_, _)
FrontierHash(h, f) ==
    IF h = 0 THEN InsertHash(0, f)
    ELSE HashNode([i \in 1..Len(f.siblings) |-> InsertHash(h - 1, f.siblings[i])]
                  \o <<FrontierHash(h - 1, f.focus)>>)

\* Number of items a frontier of height h holds: the sum over the levels of
\* (child index at the level) * Arity^(level), plus the focused item.
RECURSIVE PositionIndex(_, _)
PositionIndex(h, f) ==
    IF h = 0 THEN 1
    ELSE Len(f.siblings) * Pow(Arity, h - 1) + PositionIndex(h - 1, f.focus)

\* Option<u64>: the position of the next insertion.  The design document
\* gives the count of the items inserted for every frontier that holds no
\* more than its capacity, the full one included.
FrontierPosition(f) == Some(PositionIndex(Depth, f))

\* Finalize a frontier of height h into Insert<complete tier of height h>.
RECURSIVE FrontierFinalize(_, _)
FrontierFinalize(h, f) ==
    IF h = 0 THEN f
    ELSE LET kids == f.siblings \o <<FrontierFinalize(h - 1, f.focus)>>
         IN  Keep([hash |-> FrontierHash(h, f),
                   children |-> kids \o [i \in 1..(Arity - Len(kids)) |->
                                            HashOnly(HashZero)]])

\* Mutant of FrontierInsert: a new focus is opened as soon as there is a
\* spare slot, whether or not the current focus is full.
RECURSIVE FrontierInsert_EarlyFocus(_, _, _)
FrontierInsert_EarlyFocus(h, f, item) ==
    IF h = 0 THEN [ok |-> FALSE, f |-> f]
    ELSE IF Len(f.siblings) < Arity - 1
         THEN [ok |-> TRUE,
               f |-> [siblings |-> Append(f.siblings,
                                          FrontierFinalize(h - 1, f.focus)),
                      focus |-> NestedNew(h - 1, item)]]
         ELSE LET r == FrontierInsert_EarlyFocus(h - 1, f.focus, item)
              IN  [ok |-> r.ok, f |-> [f EXCEPT !.focus = r.f]]

\* insert_owned: [ok, f]; ok = FALSE means the frontier was full.
RECURSIVE FrontierInsert(_, _, _)
FrontierInsert(h, f, item) ==
    IF h = 0 THEN [ok |-> FALSE, f |-> f]
    ELSE LET r == FrontierInsert(h - 1, f.focus, item)
         IN  IF r.ok THEN [ok |-> TRUE, f |-> [f EXCEPT !.focus = r.f]]
             ELSE IF Len(f.siblings) < Arity - 1
                  THEN [ok |-> TRUE,
                        f |-> [siblings |-> Append(f.siblings,
                                                   FrontierFinalize(h - 1, f.focus)),
                               focus |-> NestedNew(h - 1, item)]]
                  ELSE [ok |-> FALSE, f |-> f]

\* update: replace the focus item by v and return the old item, or None when
\* the focus item is hash-only.
RECURSIVE FrontierUpdate(_, _, _)
FrontierUpdate(h, f, v) ==
    IF h = 0
    THEN IF f.tag = "Keep" THEN [res |-> Some(f.val), f |-> Keep(v)]
         ELSE [res |-> NoneV, f |-> f]
    ELSE LET r == FrontierUpdate(h - 1, f.focus, v)
         IN  [res |-> r.res, f |-> [f EXCEPT !.focus = r.f]]

\* ----------------------------------------------------------- complete tier
\* Digests of all children of a node except the one at index idx (0-based),
\* left to right.
SiblingHashes(hs, idx) ==
    LET all == PadZero(hs)
    IN  [i \in 1..(Arity - 1) |-> IF i <= idx THEN all[i] ELSE all[i + 1]]

\* witness on Insert<complete tier of height h>: None, or the
\* authentication path (leaf level first) and the item.
RECURSIVE CompleteWitness(_, _, _)
CompleteWitness(h, n, p) ==
    IF n.tag = "Hash" THEN NoneV
    ELSE IF h = 0 THEN (IF p = 0 THEN Some([path |-> <<>>, item |-> n.val]) ELSE NoneV)
    ELSE LET cap == Pow(Arity, h - 1)
             idx == p \div cap
         IN  IF idx >= Arity THEN NoneV
             ELSE LET w == CompleteWitness(h - 1, n.val.children[idx + 1], p % cap)
                      hs == [i \in 1..Arity |-> InsertHash(h - 1, n.val.children[i])]
                  IN  IF w.tag = "None" THEN NoneV
                      ELSE Some([path |-> Append(w.val.path, SiblingHashes(hs, idx)),
                                 item |-> w.val.item])

\* forget on Insert<complete tier of height h>: [changed, n].
RECURSIVE CompleteForget(_, _, _)
CompleteForget(h, n, p) ==
    IF n.tag = "Hash" THEN [changed |-> FALSE, n |-> n]
    ELSE IF h = 0
         THEN (IF p = 0 THEN [changed |-> TRUE, n |-> HashOnly(HashLeaf(n.val))]
               ELSE [changed |-> FALSE, n |-> n])
    ELSE LET cap == Pow(Arity, h - 1)
             idx == p \div cap
         IN  IF idx >= Arity THEN [changed |-> FALSE, n |-> n]
             ELSE LET r == CompleteForget(h - 1, n.val.children[idx + 1], p % cap)
                  IN  [changed |-> r.changed,
                       n |-> Keep([n.val EXCEPT !.children[idx + 1] = r.n])]

\* ------------------------------------------- frontier witness and forget
RECURSIVE FrontierWitness(_, _, _)
FrontierWitness(h, f, p) ==
    IF h = 0 THEN CompleteWitness(0, f, p)
    ELSE LET cap == Pow(Arity, h - 1)
             idx == p \div cap
             hs == [i \in 1..Len(f.siblings) |-> InsertHash(h - 1, f.siblings[i])]
                   \o <<FrontierHash(h - 1, f.focus)>>
             w == IF idx < Len(f.siblings)
                  THEN CompleteWitness(h - 1, f.siblings[idx + 1], p % cap)
                  ELSE IF idx = Len(f.siblings)
                       THEN FrontierWitness(h - 1, f.focus, p % cap)
                       ELSE NoneV
         IN  IF w.tag = "None" THEN NoneV
             ELSE Some([path |-> Append(w.val.path, SiblingHashes(hs, idx)),
                        item |-> w.val.item])

RECURSIVE FrontierForget(_, _, _)
FrontierForget(h, f, p) ==
    IF h = 0
    THEN LET r == CompleteForget(0, f, p) IN [changed |-> r.changed, f |-> r.n]
    ELSE LET cap == Pow(Arity, h - 1)
             idx == p \div cap
         IN  IF idx < Len(f.siblings)
             THEN LET r == CompleteForget(h - 1, f.siblings[idx + 1], p % cap)
                  IN  [changed |-> r.changed,
                       f |-> [f EXCEPT !.siblings[idx + 1] = r.n]]
             ELSE IF idx = Len(f.siblings)
                  THEN LET r == FrontierForget(h - 1, f.focus, p % cap)
                       IN  [changed |-> r.changed, f |-> [f EXCEPT !.focus = r.f]]
                  ELSE [changed |-> FALSE, f |-> f]

\* Recombine an authentication path with a leaf digest, bottom-up, according
\* to position p: at each level the running digest takes its place among the
\* sibling digests.
RECURSIVE Recombine(_, _, _)
Recombine(path, hsh, p) ==
    IF path = <<>> THEN hsh
    ELSE LET idx == p % Arity
             sib == Head(path)
             all == [i \in 1..Arity |->
                        IF i <= idx THEN sib[i]
                        ELSE IF i = idx + 1 THEN hsh ELSE sib[i - 1]]
         IN  Recombine(Tail(path), HashNode(all), p \div Arity)

\* ------------------------------------------------------------------- Top
\* Top<Item> { inner: Option<Nested<Item>> }
TopNew == [inner |-> NoneV]

\* Results of Top::insert.  A panic unwinds out of insert after the inner
\* frontier was taken out of self.
Ok == [tag |-> "Ok"]
Err(item) == [tag |-> "Err", item |-> item]
Panic == [tag |-> "Panic"]

\* Mutant of TopIsFull: an empty tier reports itself full.
TopIsFull_EmptyFull(t) ==
    IF t.inner.tag = "Some" THEN FrontierIsFull(Depth, t.inner.val) ELSE TRUE

TopIsFull(t) ==
    IF t.inner.tag = "Some" THEN FrontierIsFull(Depth, t.inner.val) ELSE FALSE

\* Mutant of TopIsEmpty: a tier without a focused item counts as empty.
TopIsEmpty_NoFocus(t) ==
    IF t.inner.tag = "Some"
    THEN FrontierUpdate(Depth, t.inner.val, 0).res.tag = "None"
    ELSE TRUE

TopIsEmpty(t) == t.inner.tag = "None"

\* Mutant of TopInsert: the full branch does not put the inner frontier back.
TopInsert_NoPutBack(t, item) ==
    IF t.inner.tag = "Some"
    THEN IF FrontierIsFull(Depth, t.inner.val)
         THEN [result |-> Err(item), top |-> [inner |-> NoneV]]
         ELSE LET r == FrontierInsert(Depth, t.inner.val, item)
              IN  IF r.ok THEN [result |-> Ok, top |-> [inner |-> Some(r.f)]]
                  ELSE [result |-> Panic, top |-> [inner |-> NoneV]]
    ELSE [result |-> Ok, top |-> [inner |-> Some(NestedNew(Depth, item))]]

\* Mutant of TopInsert: a non-empty tier is replaced by a new frontier that
\* holds only the inserted item.
TopInsert_Fresh(t, item) ==
    IF t.inner.tag = "Some"
    THEN IF FrontierIsFull(Depth, t.inner.val)
         THEN [result |-> Err(item), top |-> [inner |-> Some(t.inner.val)]]
         ELSE [result |-> Ok, top |-> [inner |-> Some(NestedNew(Depth, item))]]
    ELSE [result |-> Ok, top |-> [inner |-> Some(NestedNew(Depth, item))]]

\* Mutant of TopInsert: no is_full check before insert_owned.
TopInsert_NoFullCheck(t, item) ==
    IF t.inner.tag = "Some"
    THEN LET r == FrontierInsert(Depth, t.inner.val, item)
         IN  IF r.ok THEN [result |-> Ok, top |-> [inner |-> Some(r.f)]]
             ELSE [result |-> Panic, top |-> [inner |-> NoneV]]
    ELSE [result |-> Ok, top |-> [inner |-> Some(NestedNew(Depth, item))]]

\* Mutant of TopInsert: a tier whose focus item is hash-only rejects the item.
TopInsert_NeedsFocus(t, item) ==
    IF t.inner.tag = "Some"
    THEN IF FrontierIsFull(Depth, t.inner.val)
            \/ FrontierUpdate(Depth, t.inner.val, item).res.tag = "None"
         THEN [result |-> Err(item), top |-> [inner |-> Some(t.inner.val)]]
         ELSE LET r == FrontierInsert(Depth, t.inner.val, item)
              IN  IF r.ok THEN [result |-> Ok, top |-> [inner |-> Some(r.f)]]
                  ELSE [result |-> Panic, top |-> [inner |-> NoneV]]
    ELSE [result |-> Ok, top |-> [inner |-> Some(NestedNew(Depth, item))]]

TopInsert(t, item) ==
    IF t.inner.tag = "Some"
    THEN IF FrontierIsFull(Depth, t.inner.val)
         THEN [result |-> Err(item), top |-> [inner |-> Some(t.inner.val)]]
         ELSE LET r == FrontierInsert(Depth, t.inner.val, item)
              IN  IF r.ok THEN [result |-> Ok, top |-> [inner |-> Some(r.f)]]
                  ELSE [result |-> Panic, top |-> [inner |-> NoneV]]
    ELSE [result |-> Ok, top |-> [inner |-> Some(NestedNew(Depth, item))]]

\* Mutant of TopUpdate: the closure is applied to a copy of the inner frontier.
TopUpdate_OnCopy(t, v) ==
    IF t.inner.tag = "Some"
    THEN LET r == FrontierUpdate(Depth, t.inner.val, v)
         IN  [result |-> r.res, top |-> t]
    ELSE [result |-> NoneV, top |-> t]

TopUpdate(t, v) ==
    IF t.inner.tag = "Some"
    THEN LET r == FrontierUpdate(Depth, t.inner.val, v)
         IN  [result |-> r.res, top |-> [inner |-> Some(r.f)]]
    ELSE [result |-> NoneV, top |-> t]

TopFocus(t) ==
    IF t.inner.tag = "Some"
    THEN FrontierUpdate(Depth, t.inner.val, 0).res
    ELSE NoneV

\* Mutant of TopFinalize: the empty tier finalizes to the empty-subtree hash.
TopFinalize_EmptyZero(t) ==
    IF t.inner.tag = "Some"
    THEN LET n == FrontierFinalize(Depth, t.inner.val)
         IN  IF n.tag = "Keep" THEN Keep([inner |-> n.val]) ELSE n
    ELSE HashOnly(HashZero)

\* Mutant of TopFinalize: a non-empty tier finalizes to its hash alone.
TopFinalize_HashOnly(t) ==
    IF t.inner.tag = "Some"
    THEN HashOnly(FrontierHash(Depth, t.inner.val))
    ELSE HashOnly(HashOne)

\* Insert<complete::Top>
TopFinalize(t) ==
    IF t.inner.tag = "Some"
    THEN LET n == FrontierFinalize(Depth, t.inner.val)
         IN  IF n.tag = "Keep" THEN Keep([inner |-> n.val]) ELSE n
    ELSE HashOnly(HashOne)

TopPosition(t) ==
    IF t.inner.tag = "Some"
    THEN FrontierPosition(t.inner.val)
    ELSE Some(0)

TopHash(t) ==
    IF t.inner.tag = "Some" THEN FrontierHash(Depth, t.inner.val) ELSE HashZero

\* cached_hash: the frontier's cache is either unset or holds its hash.
TopCachedHash(t) ==
    IF t.inner.tag = "Some"
    THEN {NoneV, Some(FrontierHash(Depth, t.inner.val))}
    ELSE {Some(HashZero)}

\* Mutant of TopWitness: the index is not passed on.
TopWitness_IndexDropped(t, p) ==
    IF t.inner.tag = "Some" THEN FrontierWitness(Depth, t.inner.val, 0) ELSE NoneV

TopWitness(t, p) ==
    IF t.inner.tag = "Some" THEN FrontierWitness(Depth, t.inner.val, p) ELSE NoneV

\* Mutant of TopForget: the inner frontier is forgotten on a copy.
TopForget_OnCopy(t, p) ==
    IF t.inner.tag = "Some"
    THEN LET r == FrontierForget(Depth, t.inner.val, p)
         IN  [result |-> r.changed, top |-> t]
    ELSE [result |-> FALSE, top |-> t]

\* Mutant of TopForget: a non-empty tier always reports a change.
TopForget_AlwaysTrue(t, p) ==
    IF t.inner.tag = "Some"
    THEN LET r == FrontierForget(Depth, t.inner.val, p)
         IN  [result |-> TRUE, top |-> [inner |-> Some(r.f)]]
    ELSE [result |-> FALSE, top |-> t]

\* Mutant of TopForget: the empty tier reports a change.
TopForget_EmptyTrue(t, p) ==
    IF t.inner.tag = "Some"
    THEN LET r == FrontierForget(Depth, t.inner.val, p)
         IN  [result |-> r.changed, top |-> [inner |-> Some(r.f)]]
    ELSE [result |-> TRUE, top |-> t]

TopForget(t, p) ==
    IF t.inner.tag = "Some"
    THEN LET r == FrontierForget(Depth, t.inner.val, p)
         IN  [result |-> r.changed, top |-> [inner |-> Some(r.f)]]
    ELSE [result |-> FALSE, top |-> t]

\* ------------------------------------------- the finalized complete::Top
\* n is the Insert<complete::Top> returned by finalize.
FinalizedHash(n) == IF n.tag = "Hash" THEN n.hash ELSE n.val.inner.hash

FinalizedWitness(n, p) ==
    IF n.tag = "Hash" THEN NoneV
    ELSE CompleteWitness(Depth, Keep(n.val.inner), p)

FinalizedForget(n, p) ==
    IF n.tag = "Hash" THEN [result |-> FALSE, n |-> n]
    ELSE LET r == CompleteForget(Depth, Keep(n.val.inner), p)
         IN  [result |-> r.changed, n |-> Keep([inner |-> r.n.val])]

\* ------------------------------------------------------- wallet command
\* Number of distinct spend seeds.
NumSeeds == 2

Seeds == 1..NumSeeds

\* Length in bytes of a spend seed.
SeedLen == 32

\* What wallet_path names: nothing, a symbolic link whose target does not
\* exist, a directory, or a file.  A file holds bytes that do not parse
\* ("Garbage"), JSON with a wallet field that is no complete client state
\* ("Minimal"), or a client state ("State") that is fresh or has synced data.
PathEntry(kind, fmt, seed, data) ==
    [kind |-> kind, fmt |-> fmt, seed |-> seed, data |-> data]

PathAbsent == PathEntry("Absent", "-", 0, "-")
PathDangling == PathEntry("Dangling", "-", 0, "-")
PathDir == PathEntry("Dir", "-", 0, "-")
FileGarbage == PathEntry("File", "Garbage", 0, "-")
FileMinimal(s) == PathEntry("File", "Minimal", s, "-")
FileState(s, d) == PathEntry("File", "State", s, d)

PathEntries ==
    {PathAbsent, PathDangling, PathDir, FileGarbage}
    \cup {FileMinimal(s) : s \in Seeds}
    \cup {FileState(s, d) : s \in Seeds, d \in {"fresh", "synced"}}

\* Path::exists and Path::is_file follow symbolic links: a dangling link
\* neither exists nor is a file.
PathExists(w) == w.kind \in {"File", "Dir"}
PathIsFile(w) == w.kind = "File"

\* ClientState::new(wallet): the wallet's seed with no other client state.
ClientStateNew(s) == FileState(s, "fresh")

\* The spend_seed argument of Import: whether it is a hex string, how many
\* bytes it decodes to, and the seed it encodes.
SeedInput(hex, bytes, seed) == [hex |-> hex, bytes |-> bytes, seed |-> seed]
NoInput == SeedInput(FALSE, 0, 0)
SeedInputs ==
    {SeedInput(TRUE, SeedLen, s) : s \in Seeds}
    \cup {SeedInput(FALSE, 0, 0), SeedInput(TRUE, SeedLen - 1, 0)}

\* hex::decode followed by SpendSeed::try_from.
ParseSeed(input) ==
    IF ~input.hex THEN NoneV
    ELSE IF input.bytes # SeedLen THEN NoneV
    ELSE Some(input.seed)

\* What the environment lets an I/O step do.
SaveEnv == {"ok", "save_fail", "save_partial", "archive_dir_fail", "archive_save_fail"}
ResetEnv == {"ok", "tmp_fail", "write_fail", "load_fail", "persist_fail"}
DeleteEnv == {"ok", "remove_fail"}

ExecResult(res, out, w, a) == [res |-> res, out |-> out, wallet |-> w, archive |-> a]

\* Mutant of ExecSave: no check that wallet_path exists.
ExecSave_NoExistsCheck(s, w, a, env) ==
    IF env = "save_fail" THEN ExecResult("Err", 0, w, a)
    ELSE IF env = "save_partial" THEN ExecResult("Err", 0, FileGarbage, a)
    ELSE IF env = "archive_dir_fail" THEN ExecResult("Panic", 0, ClientStateNew(s), a)
    ELSE IF env = "archive_save_fail" THEN ExecResult("Err", 0, ClientStateNew(s), a)
    ELSE ExecResult("Ok", 0, ClientStateNew(s), a \cup {s})

\* The tail of exec for a command that produced a new state: refuse to
\* overwrite, save the wallet, then save the archive copy.
ExecSave(s, w, a, env) ==
    IF PathExists(w) THEN ExecResult("Err", 0, w, a)
    ELSE IF env = "save_fail" THEN ExecResult("Err", 0, w, a)
    ELSE IF env = "save_partial" THEN ExecResult("Err", 0, FileGarbage, a)
    ELSE IF env = "archive_dir_fail" THEN ExecResult("Panic", 0, ClientStateNew(s), a)
    ELSE IF env = "archive_save_fail" THEN ExecResult("Err", 0, ClientStateNew(s), a)
    ELSE ExecResult("Ok", 0, ClientStateNew(s), a \cup {s})

ExecGenerate(s, w, a, env) == ExecSave(s, w, a, env)

ExecImport(input, w, a, env) ==
    LET seed == ParseSeed(input)
    IN  IF seed.tag = "None" THEN ExecResult("Err", 0, w, a)
        ELSE ExecSave(seed.val, w, a, env)

\* ClientStateFile::load succeeds on a complete client state only.
ExecExport(w, a) ==
    IF w.kind = "File" /\ w.fmt = "State" THEN ExecResult("Ok", w.seed, w, a)
    ELSE ExecResult("Err", 0, w, a)

ExecDelete(w, a, env) ==
    IF PathIsFile(w)
    THEN IF env = "remove_fail" THEN ExecResult("Err", 0, w, a)
         ELSE ExecResult("Ok", 0, PathAbsent, a)
    ELSE ExecResult("Err", 0, w, a)

\* Mutant of ExecReset: the temporary file is moved over the wallet file
\* before it is parsed back.
ExecReset_PersistFirst(w, a, env) ==
    IF ~(w.kind = "File" /\ w.fmt \in {"Minimal", "State"})
    THEN ExecResult("Err", 0, w, a)
    ELSE IF env = "tmp_fail" THEN ExecResult("Err", 0, w, a)
    ELSE IF env = "write_fail" THEN ExecResult("Err", 0, w, a)
    ELSE IF env = "persist_fail" THEN ExecResult("Err", 0, w, a)
    ELSE IF env = "load_fail" THEN ExecResult("Err", 0, FileGarbage, a)
    ELSE ExecResult("Ok", 0, ClientStateNew(w.seed), a)

\* Reset: read the wallet field, write ClientState::new(wallet) to a
\* temporary file, parse it back, then move it over the wallet file.
ExecReset(w, a, env) ==
    IF ~(w.kind = "File" /\ w.fmt \in {"Minimal", "State"})
    THEN ExecResult("Err", 0, w, a)
    ELSE IF env = "tmp_fail" THEN ExecResult("Err", 0, w, a)
    ELSE IF env = "write_fail" THEN ExecResult("Err", 0, w, a)
    ELSE IF env = "load_fail" THEN ExecResult("Err", 0, w, a)
    ELSE IF env = "persist_fail" THEN ExecResult("Err", 0, w, a)
    ELSE ExecResult("Ok", 0, ClientStateNew(w.seed), a)

WalletCall(cmd, arg, env, r) ==
    [cmd |-> cmd, arg |-> arg, env |-> env, res |-> r.res, out |-> r.out]

\* ----------------------------------------------------------------- state
\* top       the Top under construction
\* fin       None while the frontier is open, Some(Insert<complete::Top>)
\*           once finalize has consumed it
\* last      the last call: [op, arg, res]
\* prev      top as it was when the last call started
\* count     the number of successful inserts
\* inserted  the item given to the k-th successful insert, at index k + 1
\*           (as replaced in place by a later successful update)
\* forgotten the positions for which forget on the frontier returned true
VARIABLES top, fin, last, prev, count, inserted, forgotten

\* State of the wallet command (pcli/src/command/wallet.rs):
\* walletFile what wallet_path names on disk
\* archive    the spend seeds that have a copy in the archive directory
\* wlast      the last wallet command: [cmd, arg, env, res, out]
\* wprev      [wallet, archive] as they were when that command started
VARIABLES walletFile, archive, wlast, wprev

treeVars == <<top, fin, last, prev, count, inserted, forgotten>>
walletVars == <<walletFile, archive, wlast, wprev>>

vars == <<top, fin, last, prev, count, inserted, forgotten,
          walletFile, archive, wlast, wprev>>

Init ==
    /\ top = TopNew
    /\ fin = NoneV
    /\ last = [op |-> "new", arg |-> 0, res |-> Ok]
    /\ prev = TopNew
    /\ count = 0
    /\ inserted = <<>>
    /\ forgotten = {}
    /\ walletFile = PathAbsent
    /\ archive = {}
    /\ wlast = WalletCall("none", NoInput, "ok", ExecResult("Ok", 0, PathAbsent, {}))
    /\ wprev = [wallet |-> PathAbsent, archive |-> {}]

Insert(item) ==
    /\ fin.tag = "None"
    /\ LET r == TopInsert(top, item)
       IN  /\ top' = r.top
           /\ last' = [op |-> "insert", arg |-> item, res |-> r.result]
           /\ count' = IF r.result.tag = "Ok" THEN count + 1 ELSE count
           /\ inserted' = IF r.result.tag = "Ok" THEN Append(inserted, item)
                          ELSE inserted
    /\ prev' = top
    /\ UNCHANGED <<fin, forgotten>>
    /\ UNCHANGED walletVars

\* update(f) with f = |item| std::mem::replace(item, v)
Update(v) ==
    /\ fin.tag = "None"
    /\ LET r == TopUpdate(top, v)
       IN  /\ top' = r.top
           /\ last' = [op |-> "update", arg |-> v, res |-> r.result]
           /\ inserted' = IF r.result.tag = "Some" /\ inserted # <<>>
                          THEN [inserted EXCEPT ![Len(inserted)] = v]
                          ELSE inserted
    /\ prev' = top
    /\ UNCHANGED <<fin, count, forgotten>>
    /\ UNCHANGED walletVars

Forget(p) ==
    /\ fin.tag = "None"
    /\ LET r == TopForget(top, p)
       IN  /\ top' = r.top
           /\ last' = [op |-> "forget", arg |-> p, res |-> r.result]
           /\ forgotten' = IF r.result THEN forgotten \cup {p} ELSE forgotten
    /\ prev' = top
    /\ UNCHANGED <<fin, count, inserted>>
    /\ UNCHANGED walletVars

Witness(p) ==
    /\ fin.tag = "None"
    /\ last' = [op |-> "witness", arg |-> p, res |-> TopWitness(top, p)]
    /\ prev' = top
    /\ UNCHANGED <<top, fin, count, inserted, forgotten>>
    /\ UNCHANGED walletVars

\* finalize consumes the Top: no frontier operation is enabled afterwards;
\* top keeps the value the frontier had when it was finalized.
Finalize ==
    /\ fin.tag = "None"
    /\ fin' = Some(TopFinalize(top))
    /\ last' = [op |-> "finalize", arg |-> 0, res |-> Ok]
    /\ prev' = top
    /\ UNCHANGED <<top, count, inserted, forgotten>>
    /\ UNCHANGED walletVars

\* forget on the finalized complete tier.
ForgetFinalized(p) ==
    /\ fin.tag = "Some"
    /\ LET r == FinalizedForget(fin.val, p)
       IN  /\ fin' = Some(r.n)
           /\ last' = [op |-> "forget_complete", arg |-> p, res |-> r.result]
    /\ prev' = top
    /\ UNCHANGED <<top, count, inserted, forgotten>>
    /\ UNCHANGED walletVars

Next ==
    \/ \E item \in Items : Insert(item)
    \/ \E v \in Items : Update(v)
    \/ \E p \in Positions : Forget(p)
    \/ \E p \in Positions : Witness(p)
    \/ Finalize
    \/ \E p \in Positions : ForgetFinalized(p)

Spec == Init /\ [][Next]_vars

\* ------------------------------------------------ wallet command actions
\* The wallet command runs against whatever wallet_path names when pcli
\* starts; the commitment tree plays no part in it.
WalletInit ==
    /\ top = TopNew
    /\ fin = NoneV
    /\ last = [op |-> "new", arg |-> 0, res |-> Ok]
    /\ prev = TopNew
    /\ count = 0
    /\ inserted = <<>>
    /\ forgotten = {}
    /\ walletFile \in PathEntries
    /\ archive \in SUBSET Seeds
    /\ wlast = WalletCall("none", NoInput, "ok", ExecResult("Ok", 0, walletFile, archive))
    /\ wprev = [wallet |-> walletFile, archive |-> archive]

\* Wallet::generate draws the seed at random.
Generate(s, env) ==
    LET r == ExecGenerate(s, walletFile, archive, env)
    IN  /\ walletFile' = r.wallet
        /\ archive' = r.archive
        /\ wlast' = WalletCall("generate", SeedInput(TRUE, SeedLen, s), env, r)
        /\ wprev' = [wallet |-> walletFile, archive |-> archive]
        /\ UNCHANGED treeVars

Import(input, env) ==
    LET r == ExecImport(input, walletFile, archive, env)
    IN  /\ walletFile' = r.wallet
        /\ archive' = r.archive
        /\ wlast' = WalletCall("import", input, env, r)
        /\ wprev' = [wallet |-> walletFile, archive |-> archive]
        /\ UNCHANGED treeVars

Export ==
    LET r == ExecExport(walletFile, archive)
    IN  /\ walletFile' = r.wallet
        /\ archive' = r.archive
        /\ wlast' = WalletCall("export", NoInput, "ok", r)
        /\ wprev' = [wallet |-> walletFile, archive |-> archive]
        /\ UNCHANGED treeVars

Delete(env) ==
    LET r == ExecDelete(walletFile, archive, env)
    IN  /\ walletFile' = r.wallet
        /\ archive' = r.archive
        /\ wlast' = WalletCall("delete", NoInput, env, r)
        /\ wprev' = [wallet |-> walletFile, archive |-> archive]
        /\ UNCHANGED treeVars

Reset(env) ==
    LET r == ExecReset(walletFile, archive, env)
    IN  /\ walletFile' = r.wallet
        /\ archive' = r.archive
        /\ wlast' = WalletCall("reset", NoInput, env, r)
        /\ wprev' = [wallet |-> walletFile, archive |-> archive]
        /\ UNCHANGED treeVars

WalletNext ==
    \/ \E s \in Seeds, env \in SaveEnv : Generate(s, env)
    \/ \E input \in SeedInputs, env \in SaveEnv : Import(input, env)
    \/ Export
    \/ \E env \in DeleteEnv : Delete(env)
    \/ \E env \in ResetEnv : Reset(env)

WalletSpec == WalletInit /\ [][WalletNext]_vars

\* --------------------------------------------------------------- helpers
\* The frontier is still open (finalize has not consumed it).
Open == fin.tag = "None"

\* Position p holds an item whose content was never forgotten.
Live(p) == p < count /\ p \notin forgotten

\* The observable queries the claims compare before and after a call.
SameQueries(a, b) ==
    /\ TopHash(a) = TopHash(b)
    /\ TopPosition(a) = TopPosition(b)
    /\ TopIsFull(a) = TopIsFull(b)
    /\ TopIsEmpty(a) = TopIsEmpty(b)

SameWitnesses(a, b) == \A p \in Positions : TopWitness(a, p) = TopWitness(b, p)

\* ---------------------------------------------------------------- claims

\* C1: an insert into a full Top returns Err carrying exactly the item that
\* was passed in and leaves the tree unchanged: hash, position, is_full,
\* is_empty and every witness are the same before and after.
C1_FullInsertRejected ==
    (last.op = "insert" /\ TopIsFull(prev)) =>
        /\ last.res = Err(last.arg)
        /\ top = prev
        /\ SameQueries(prev, top)
        /\ SameWitnesses(prev, top)

C1_Witness ==
    /\ last.op = "insert"
    /\ TopIsFull(prev)
    /\ last.res.tag = "Err"
    /\ forgotten # {}

\* C2: after n successful inserts position() is Some(n), for every n from 0
\* up to the capacity, and the item of the k-th successful insert is the item
\* at position k: a successful insert puts its item at the position that
\* position() reported before the call and moves no earlier item.
C2_PositionCountsInserts ==
    /\ count <= Capacity
    /\ TopPosition(top) = Some(count)
    /\ (last.op = "insert" /\ last.res.tag = "Ok") =>
           /\ TopPosition(prev) = Some(count - 1)
           /\ TopWitness(top, count - 1).tag = "Some"
           /\ TopWitness(top, count - 1).val.item = last.arg
           /\ \A k \in 0..(count - 2) :
                  TopWitness(prev, k).tag = "Some" =>
                      /\ TopWitness(top, k).tag = "Some"
                      /\ TopWitness(top, k).val.item = TopWitness(prev, k).val.item

C2_Witness ==
    /\ count = Capacity
    /\ last.op = "insert"
    /\ last.res.tag = "Ok"
    /\ TopPosition(top) = Some(Capacity)

\* C3: the hash of the value returned by finalize() equals hash() of the
\* frontier immediately before finalizing, in every reachable state.
C3_FinalizeKeepsHash ==
    last.op = "finalize" => FinalizedHash(fin.val) = TopHash(prev)

\* C4: a Top on which nothing was inserted has hash() equal to the
\* empty-container constant one, which differs from zero, and cached_hash()
\* reports the same constant.
C4_EmptyHashIsOne ==
    TopIsEmpty(top) =>
        /\ HashOne # HashZero
        /\ TopHash(top) = HashOne
        /\ TopCachedHash(top) = {Some(HashOne)}

\* C5: a Top on which nothing was inserted has position() = Some(0), is
\* empty and not full, and finalize() on it yields the hash-only node that
\* carries Hash::one, not a kept complete tier.
C5_FreshTop ==
    count = 0 =>
        /\ TopPosition(top) = Some(0)
        /\ TopIsEmpty(top)
        /\ ~TopIsFull(top)
        /\ TopFinalize(top) = HashOnly(HashOne)
        /\ (fin.tag = "Some" => fin.val = HashOnly(HashOne))

C5_Witness ==
    /\ count = 0
    /\ last.op = "finalize"
    /\ fin.tag = "Some"

\* C6: for every position below the item count whose content is live,
\* witness(p) returns the item inserted at p and an authentication path with
\* one group of Arity - 1 sibling digests per level that, recombined
\* bottom-up with the leaf hash according to p, gives the current hash().
C6_WitnessReproducesHash ==
    \A p \in Positions :
        Live(p) =>
            LET w == TopWitness(top, p)
            IN  /\ w.tag = "Some"
                /\ w.val.item = inserted[p + 1]
                /\ Len(w.val.path) = Depth
                /\ \A i \in 1..Len(w.val.path) : Len(w.val.path[i]) = Arity - 1
                /\ Recombine(w.val.path, HashLeaf(w.val.item), p) = TopHash(top)

C6_Witness ==
    /\ count = Capacity
    /\ forgotten # {}
    /\ last.op = "witness"
    /\ Live(last.arg)
    /\ last.arg > 0
    /\ last.res.tag = "Some"

\* C7: forget(p) leaves hash(), position(), is_full() and is_empty()
\* unchanged; afterwards witness(p) is None, and witness(q) of every other
\* position q that had a witness before the call is the same as before.
C7_ForgetFrame ==
    last.op = "forget" =>
        /\ SameQueries(prev, top)
        /\ TopWitness(top, last.arg) = NoneV
        /\ \A q \in Positions \ {last.arg} :
               TopWitness(prev, q).tag = "Some" =>
                   TopWitness(top, q) = TopWitness(prev, q)

C7_Witness ==
    /\ last.op = "forget"
    /\ last.res = TRUE
    /\ TopWitness(prev, last.arg).tag = "Some"
    /\ \E q \in Positions \ {last.arg} : TopWitness(top, q).tag = "Some"

\* C8: forget(p) of a position with live content returns true, an
\* immediately following forget(p) returns false, and hash() is the same
\* before the first call, between the calls and after the second.
C8_ForgetTwice ==
    [][ /\ (last'.op = "forget" /\ Open /\ TopWitness(top, last'.arg).tag = "Some") =>
               /\ last'.res = TRUE
               /\ TopHash(top') = TopHash(top)
        /\ (last.op = "forget" /\ last.res = TRUE
            /\ last'.op = "forget" /\ last'.arg = last.arg) =>
               /\ last'.res = FALSE
               /\ TopHash(top) = TopHash(prev)
               /\ TopHash(top') = TopHash(top)
      ]_vars

C8_Witness ==
    /\ last.op = "forget"
    /\ last.res = FALSE
    /\ last.arg \in forgotten
    /\ top = prev

\* C9: insert returns Err exactly when is_full() was true before the call,
\* returns Ok(()) otherwise (empty Top and forgotten leaves included), and
\* never panics.
C9_InsertOkUnlessFull ==
    last.op = "insert" =>
           /\ last.res.tag # "Panic"
           /\ (last.res.tag = "Err") <=> TopIsFull(prev)
           /\ ~TopIsFull(prev) => last.res = Ok

C9_Witness ==
    /\ last.op = "insert"
    /\ last.res.tag = "Ok"
    /\ ~TopIsEmpty(prev)
    /\ count - 2 \in forgotten

\* C10: is_full() is true exactly when the number of successful inserts
\* equals the capacity Arity^Depth, and forget and update never change it.
C10_FullIffCapacity ==
    /\ TopIsFull(top) <=> count = Capacity
    /\ last.op \in {"forget", "update"} => TopIsFull(top) = TopIsFull(prev)

C10_Witness ==
    /\ TopIsFull(top)
    /\ last.op = "forget"
    /\ last.res = TRUE

\* C11: update(f) returns None and changes nothing when the Top is empty or
\* the most recently inserted item was forgotten; otherwise it applies f to
\* exactly the item at position count - 1, returns Some of f's result (here
\* the replaced item), and leaves every other item, position() and
\* is_full() unchanged.
C11_UpdateFocusOnly ==
    last.op = "update" =>
        IF TopIsEmpty(prev) \/ (count - 1) \in forgotten
        THEN /\ last.res = NoneV
             /\ top = prev
        ELSE /\ TopWitness(prev, count - 1).tag = "Some"
             /\ last.res = Some(TopWitness(prev, count - 1).val.item)
             /\ TopWitness(top, count - 1).tag = "Some"
             /\ TopWitness(top, count - 1).val.item = last.arg
             /\ TopPosition(top) = TopPosition(prev)
             /\ TopIsFull(top) = TopIsFull(prev)
             /\ \A q \in Positions \ {count - 1} :
                    /\ TopWitness(top, q).tag = TopWitness(prev, q).tag
                    /\ TopWitness(prev, q).tag = "Some" =>
                           TopWitness(top, q).val.item = TopWitness(prev, q).val.item

C11_Witness ==
    /\ last.op = "update"
    /\ last.res.tag = "Some"
    /\ last.res.val # last.arg
    /\ count >= 2
    /\ TopWitness(top, 0).tag = "Some"

\* C12: for every position at or beyond the item count (every position, on
\* the empty Top) witness(p) returns None and forget(p) returns false, and
\* such a call leaves hash(), position() and every witness unchanged.
C12_OutOfRange ==
    /\ \A p \in 0..(2 * Capacity + 1) :
           p >= count =>
               /\ TopWitness(top, p) = NoneV
               /\ TopForget(top, p).result = FALSE
    /\ (last.op = "witness" /\ last.arg >= count) =>
           /\ last.res = NoneV
           /\ top = prev
    /\ (last.op = "forget" /\ last.arg >= count) =>
           /\ last.res = FALSE
           /\ top = prev
           /\ SameQueries(prev, top)
           /\ SameWitnesses(prev, top)

C12_Witness ==
    /\ last.op = "forget"
    /\ last.arg >= count
    /\ last.arg < Capacity
    /\ count > 0
    /\ last.res = FALSE
    /\ \E q \in Positions : TopWitness(top, q).tag = "Some"

\* C13: forgetting never blocks insertion: when some item (the focus or an
\* earlier one) was forgotten and the tier is not full, insert returns
\* Ok(()), the new item gets the next position, witness on that position
\* succeeds and witness on every forgotten position is still None.
C13_ForgetNeverBlocksInsert ==
    (last.op = "insert" /\ forgotten # {} /\ ~TopIsFull(prev)) =>
        /\ last.res = Ok
        /\ TopPosition(prev) = Some(count - 1)
        /\ count - 1 \notin forgotten
        /\ TopWitness(top, count - 1).tag = "Some"
        /\ TopWitness(top, count - 1).val.item = last.arg
        /\ \A p \in forgotten : TopWitness(top, p) = NoneV

C13_Witness ==
    /\ last.op = "insert"
    /\ last.res.tag = "Ok"
    /\ count >= 3
    /\ 0 \in forgotten
    /\ count - 2 \in forgotten
    /\ TopWitness(top, count - 1).tag = "Some"

\* C14: forgetting is one-way: once forget(p) has returned true, witness(p)
\* is None in every later state, on the frontier and on the complete tier
\* returned by finalize; no call turns a hash-only item below the item
\* count back into a kept one.
C14_ForgetIsOneWay ==
    [][ /\ \A p \in forgotten' :
               /\ TopWitness(top', p) = NoneV
               /\ fin'.tag = "Some" => FinalizedWitness(fin'.val, p) = NoneV
        /\ top' # top =>
               \A p \in Positions :
                   (p < count /\ TopWitness(top, p) = NoneV) =>
                       TopWitness(top', p) = NoneV
        /\ (fin.tag = "Some" /\ fin' # fin) =>
               \A p \in Positions :
                   FinalizedWitness(fin.val, p) = NoneV =>
                       FinalizedWitness(fin'.val, p) = NoneV
      ]_vars

C14_Witness ==
    /\ fin.tag = "Some"
    /\ last.op = "forget_complete"
    /\ last.res = TRUE
    /\ forgotten # {}
    /\ count = Capacity
    /\ \E p \in forgotten : p # last.arg

\* ------------------------------------------------------------ tier shape
\* n (Insert<complete tier of height h>) is a complete subtree: it holds
\* Arity^h items, none of its slots is the empty-subtree padding.
RECURSIVE CompleteIsFull(_, _)
CompleteIsFull(h, n) ==
    IF h = 0 THEN n # HashOnly(HashZero)
    ELSE /\ n.tag = "Keep"
         /\ Len(n.val.children) = Arity
         /\ \A i \in 1..Arity : CompleteIsFull(h - 1, n.val.children[i])

\* The frontier of height h is filled left to right: at every level the
\* siblings left of the focus are complete subtrees, at most Arity - 1 of
\* them, and the focus is itself a non-empty frontier of that shape.
RECURSIVE FrontierShape(_, _)
FrontierShape(h, f) ==
    IF h = 0 THEN f # HashOnly(HashZero)
    ELSE /\ Len(f.siblings) <= Arity - 1
         /\ \A i \in 1..Len(f.siblings) : CompleteIsFull(h - 1, f.siblings[i])
         /\ FrontierShape(h - 1, f.focus)

\* The finalized tier is filled left to right: at every level some child k
\* is the last non-empty one, the children left of it are complete and the
\* children right of it are the empty-subtree padding.
RECURSIVE PrefixShape(_, _)
PrefixShape(h, n) ==
    IF h = 0 THEN n # HashOnly(HashZero)
    ELSE /\ n.tag = "Keep"
         /\ Len(n.val.children) = Arity
         /\ \E k \in 1..Arity :
                /\ \A i \in 1..(k - 1) : CompleteIsFull(h - 1, n.val.children[i])
                /\ PrefixShape(h - 1, n.val.children[k])
                /\ \A i \in (k + 1)..Arity : n.val.children[i] = HashOnly(HashZero)

\* The positions that hold an item (kept or hash-only), read off the
\* finalized tier: those whose leaf slot is not the padding.
RECURSIVE LeafSlot(_, _, _)
LeafSlot(h, n, p) ==
    IF h = 0 THEN n
    ELSE IF n.tag = "Hash" THEN n
    ELSE LeafSlot(h - 1, n.val.children[(p \div Pow(Arity, h - 1)) + 1],
                  p % Pow(Arity, h - 1))

\* C15: in every reachable state the tier is filled strictly left to right:
\* at every level the children left of the focus are complete siblings, the
\* focus is the last non-empty child and nothing right of it is non-empty,
\* so the filled positions are exactly 0..count-1; insert, update and
\* forget preserve this shape.
C15_LeftToRightShape ==
    ~TopIsEmpty(top) =>
        /\ FrontierShape(Depth, top.inner.val)
        /\ PrefixShape(Depth, FrontierFinalize(Depth, top.inner.val))
        /\ \A p \in 0..(Capacity - 1) :
               (LeafSlot(Depth, FrontierFinalize(Depth, top.inner.val), p)
                    # HashOnly(HashZero)) <=> p < count

C15_Witness ==
    /\ count = Capacity - 1
    /\ forgotten # {}
    /\ last.op = "update"
    /\ last.res.tag = "Some"
    /\ Len(top.inner.val.siblings) = Arity - 1

\* C16 (as stated): Generate and Import never overwrite: if anything at all
\* exists at wallet_path when the command runs, exec returns an error, what
\* is there is unchanged and no archive copy is written; a wallet file is
\* written only when wallet_path named nothing; an Import with an invalid
\* seed fails before any file is written.
C16_NothingAtPathIsReplaced ==
    wlast.cmd \in {"generate", "import"} =>
        /\ wprev.wallet.kind # "Absent" =>
               /\ wlast.res = "Err"
               /\ walletFile = wprev.wallet
               /\ archive = wprev.archive
        /\ walletFile # wprev.wallet => wprev.wallet.kind = "Absent"
        /\ ParseSeed(wlast.arg).tag = "None" =>
               /\ wlast.res = "Err"
               /\ walletFile = wprev.wallet
               /\ archive = wprev.archive

\* C16 (amended): Generate and Import never overwrite what
\* wallet_path.exists() reports: if wallet_path resolves, following symbolic
\* links, to an existing file or directory, exec returns an error, what is
\* there is unchanged and no archive copy is written; a wallet file is
\* written only when exists() was false (nothing at the path, or a dangling
\* symbolic link); an Import with an invalid seed fails before any file is
\* written.
C16_ExistingWalletNotOverwritten ==
    wlast.cmd \in {"generate", "import"} =>
        /\ PathExists(wprev.wallet) =>
               /\ wlast.res = "Err"
               /\ walletFile = wprev.wallet
               /\ archive = wprev.archive
        /\ walletFile # wprev.wallet => ~PathExists(wprev.wallet)
        /\ archive # wprev.archive =>
               /\ ~PathExists(wprev.wallet)
               /\ walletFile = ClientStateNew(wlast.arg.seed)
        /\ ParseSeed(wlast.arg).tag = "None" =>
               /\ wlast.res = "Err"
               /\ walletFile = wprev.wallet
               /\ archive = wprev.archive

C16_Witness ==
    /\ wlast.cmd = "import"
    /\ wlast.env = "ok"
    /\ ParseSeed(wlast.arg).tag = "Some"
    /\ wprev.wallet.kind = "File"
    /\ wprev.wallet.fmt = "State"
    /\ wprev.wallet.seed # wlast.arg.seed
    /\ wlast.res = "Err"
    /\ walletFile = wprev.wallet

\* C17: Reset keeps the spend seed and resets all other client state: after
\* a successful Reset the wallet file holds ClientState::new of the wallet
\* that was in the file; the file is replaced only when every step up to
\* and including parsing the temporary file back succeeded, so after any
\* failure (original unreadable or unparsable, temporary file not created,
\* write failure, validation failure, failed move) it is unchanged.
C17_ResetKeepsSeed ==
    wlast.cmd = "reset" =>
        /\ archive = wprev.archive
        /\ wlast.env # "ok" => wlast.res = "Err"
        /\ ~(wprev.wallet.kind = "File" /\ wprev.wallet.fmt \in {"Minimal", "State"}) =>
               wlast.res = "Err"
        /\ IF wlast.res = "Ok"
           THEN /\ wprev.wallet.kind = "File"
                /\ walletFile = FileState(wprev.wallet.seed, "fresh")
           ELSE walletFile = wprev.wallet

C17_Witness ==
    /\ wlast.cmd = "reset"
    /\ wlast.res = "Ok"
    /\ wprev.wallet.fmt = "State"
    /\ wprev.wallet.data = "synced"
    /\ walletFile # wprev.wallet

\* C18: emptiness is decided by insert calls alone: a new Top is empty,
\* after every call of insert (Ok or Err) the inner frontier is back in
\* place and is_empty() is false, and update, forget, witness and finalize
\* never change is_empty(); so is_empty() holds exactly as long as insert
\* has not been called.
C18_EmptyUntilInsert ==
    /\ TopIsEmpty(top)
    /\ [][ /\ last'.op = "insert" => ~TopIsEmpty(top')
           /\ last'.op # "insert" => (TopIsEmpty(top') <=> TopIsEmpty(top))
         ]_vars

C18_Witness ==
    /\ last.op = "insert"
    /\ last.res.tag = "Err"
    /\ ~TopIsEmpty(top)
    /\ forgotten = 0..(count - 1)

\* C19: finalization preserves witnessing: for every non-empty Top and
\* every position p, witness(p) on the complete tier returned by finalize()
\* is the same (None, or the same path and item) as witness(p) on the
\* frontier just before.
C19_FinalizeKeepsWitnesses ==
    /\ ~TopIsEmpty(top) =>
           \A p \in Positions :
               FinalizedWitness(TopFinalize(top), p) = TopWitness(top, p)
    /\ (last.op = "finalize" /\ ~TopIsEmpty(prev)) =>
           \A p \in Positions : FinalizedWitness(fin.val, p) = TopWitness(prev, p)

C19_Witness ==
    /\ last.op = "finalize"
    /\ count >= 3
    /\ count < Capacity
    /\ forgotten # {}
    /\ \E p \in Positions : p > 0 /\ FinalizedWitness(fin.val, p).tag = "Some"

====
